---- MODULE Spec2Model ----
(***************************************************************************)
(* Duplicate asset finder of nxocto: findDuplicates / handleDuplicates     *)
(* (src/src/features/duplicate-finder/duplicateFinder.ts) and the          *)
(* find-duplicates command of the CLI (src/src/cli.ts), over a small file  *)
(* system.  A string is a sequence of one-character strings, a path is a   *)
(* string with "/" separators.                                             *)
(***************************************************************************)
EXTENDS Integers, Sequences, FiniteSets, TLC

(***************************************************************************)
(* Strings                                                                 *)
(***************************************************************************)

\* UTF-16 code units of the characters the model uses.
CodeUnit ==
    [c \in {" ", "$", "&", ".", "/", "0", "1", "2", "3", "4", "5", "6", "7", "8", "9",
            ";", "E", "G", "N", "P", "S", "Y", "\\", "_",
            "a", "b", "c", "d", "e", "f", "g", "i", "j", "m", "n", "o", "p", "r", "s",
            "t", "v", "w", "x", "y", "z"} |->
        CASE c = " " -> 32 [] c = "$" -> 36 [] c = "&" -> 38 [] c = "." -> 46 [] c = "/" -> 47
          [] c = "0" -> 48 [] c = "1" -> 49 [] c = "2" -> 50 [] c = "3" -> 51
          [] c = "4" -> 52 [] c = "5" -> 53 [] c = "6" -> 54 [] c = "7" -> 55
          [] c = "8" -> 56 [] c = "9" -> 57
          [] c = ";" -> 59 [] c = "G" -> 71 [] c = "P" -> 80
          [] c = "E" -> 69 [] c = "N" -> 78 [] c = "S" -> 83 [] c = "Y" -> 89
          [] c = "\\" -> 92 [] c = "_" -> 95
          [] c = "a" -> 97 [] c = "b" -> 98 [] c = "c" -> 99 [] c = "d" -> 100
          [] c = "e" -> 101 [] c = "j" -> 106 [] c = "m" -> 109 [] c = "n" -> 110
          [] c = "o" -> 111 [] c = "p" -> 112 [] c = "r" -> 114 [] c = "s" -> 115
          [] c = "f" -> 102 [] c = "g" -> 103 [] c = "i" -> 105 [] c = "t" -> 116
          [] c = "v" -> 118 [] c = "w" -> 119
          [] c = "x" -> 120 [] c = "y" -> 121 [] c = "z" -> 122]

\* a < b in the order of Array.prototype.sort() without a comparator:
\* code unit by code unit, a proper prefix first.
RECURSIVE StrLess(_, _)
StrLess(a, b) ==
    IF b = <<>> THEN FALSE
    ELSE IF a = <<>> THEN TRUE
    ELSE IF Head(a) = Head(b) THEN StrLess(Tail(a), Tail(b))
    ELSE CodeUnit[Head(a)] < CodeUnit[Head(b)]

\* Insertion of one string into an ascending sequence, after its equals.
RECURSIVE InsertSorted(_, _)
InsertSorted(s, x) ==
    IF s = <<>> THEN <<x>>
    ELSE IF StrLess(x, Head(s)) THEN <<x>> \o s
    ELSE <<Head(s)>> \o InsertSorted(Tail(s), x)

\* Array.prototype.sort() on an array of strings.
RECURSIVE SortStrings(_)
SortStrings(s) ==
    IF s = <<>> THEN <<>>
    ELSE InsertSorted(SortStrings(Tail(s)), Head(s))

RECURSIVE Reverse(_)
Reverse(s) == IF s = <<>> THEN <<>> ELSE Reverse(Tail(s)) \o <<Head(s)>>

Range(s) == {s[i] : i \in 1..Len(s)}

RECURSIVE SetToSeq(_)
SetToSeq(S) ==
    IF S = {} THEN <<>>
    ELSE LET x == CHOOSE y \in S : TRUE IN <<x>> \o SetToSeq(S \ {x})

\* String.prototype.toLowerCase() on the characters of the model.
LowerChar(c) ==
    CASE c = "E" -> "e" [] c = "N" -> "n" [] c = "S" -> "s" [] c = "Y" -> "y"
      [] c = "G" -> "g" [] c = "P" -> "p"
      [] OTHER -> c

toLowerCase(s) == [i \in 1..Len(s) |-> LowerChar(s[i])]

\* s.endsWith(t), s.includes(t)
EndsWith(s, t) ==
    /\ Len(t) <= Len(s)
    /\ SubSeq(s, Len(s) - Len(t) + 1, Len(s)) = t

Includes(s, t) ==
    \E i \in 1..(Len(s) - Len(t) + 1) : SubSeq(s, i, i + Len(t) - 1) = t

\* Number.prototype.toString(), as template literals apply it to counter.
RECURSIVE NumToString(_)
NumToString(n) ==
    LET digit == <<"0", "1", "2", "3", "4", "5", "6", "7", "8", "9">>[(n % 10) + 1]
    IN IF n < 10 THEN <<digit>> ELSE NumToString(n \div 10) \o <<digit>>

(***************************************************************************)
(* path module of Node (POSIX), on normalised relative paths               *)
(***************************************************************************)

\* Index of the last occurrence of character c in s, 0 if there is none.
LastIndexOf(s, c) ==
    LET I == {i \in 1..Len(s) : s[i] = c}
    IN IF I = {} THEN 0 ELSE CHOOSE i \in I : \A j \in I : j <= i

join(dir, name) == dir \o <<"/">> \o name

basename(p) == SubSeq(p, LastIndexOf(p, "/") + 1, Len(p))

dirname(p) ==
    IF LastIndexOf(p, "/") = 0 THEN <<".">>
    ELSE SubSeq(p, 1, LastIndexOf(p, "/") - 1)

\* path.extname: from the last "." of the base name, "" when there is none
\* or when it is the first character of the base name.
extname(p) ==
    LET b == basename(p)
        i == LastIndexOf(b, ".")
    IN IF i <= 1 THEN <<>> ELSE SubSeq(b, i, Len(b))

\* path.basename(p, ext): the base name without a trailing ext.
basenameNoExt(p, ext) ==
    LET b == basename(p)
    IN IF ext # <<>> /\ b # ext /\ EndsWith(b, ext)
       THEN SubSeq(b, 1, Len(b) - Len(ext))
       ELSE b

(***************************************************************************)
(* Regular expressions and String.prototype.replace, as updateAllReferences *)
(* uses them                                                               *)
(***************************************************************************)

\* The characters of the class [.*+?^${}()|[\]\\] that occur in the model.
RegExpSpecial == {".", "$", "\\"}

\* oldName.replace(/[.*+?^${}()|[\]\\]/g, '\\$&')
RECURSIVE escapeRegExp(_)
escapeRegExp(s) ==
    IF s = <<>> THEN <<>>
    ELSE (IF Head(s) \in RegExpSpecial THEN <<"\\", Head(s)>> ELSE <<Head(s)>>)
         \o escapeRegExp(Tail(s))

\* Number of characters a pattern consumes: an escape and a plain character
\* consume one, "$" (end of input) none.
RECURSIVE PatternLen(_)
PatternLen(pat) ==
    IF pat = <<>> THEN 0
    ELSE IF Head(pat) = "\\" /\ Len(pat) >= 2 THEN 1 + PatternLen(SubSeq(pat, 3, Len(pat)))
    ELSE IF Head(pat) = "$" THEN PatternLen(Tail(pat))
    ELSE 1 + PatternLen(Tail(pat))

\* new RegExp(pat) matches a prefix of s: "\c" is the character c, "." any
\* character, "$" the end of the input, another character itself.
RECURSIVE MatchesAt(_, _)
MatchesAt(pat, s) ==
    IF pat = <<>> THEN TRUE
    ELSE IF Head(pat) = "\\" /\ Len(pat) >= 2
         THEN s # <<>> /\ Head(s) = pat[2] /\ MatchesAt(SubSeq(pat, 3, Len(pat)), Tail(s))
    ELSE IF Head(pat) = "$" THEN s = <<>> /\ MatchesAt(Tail(pat), s)
    ELSE s # <<>> /\ (Head(pat) = "." \/ Head(pat) = Head(s)) /\ MatchesAt(Tail(pat), Tail(s))

\* The replacement string of String.prototype.replace: "$$" is "$" and "$&"
\* is the matched text.
RECURSIVE ExpandReplacement(_, _)
ExpandReplacement(new, matched) ==
    IF new = <<>> THEN <<>>
    ELSE IF Head(new) = "$" /\ Len(new) >= 2 /\ new[2] = "$"
         THEN <<"$">> \o ExpandReplacement(SubSeq(new, 3, Len(new)), matched)
    ELSE IF Head(new) = "$" /\ Len(new) >= 2 /\ new[2] = "&"
         THEN matched \o ExpandReplacement(SubSeq(new, 3, Len(new)), matched)
    ELSE <<Head(new)>> \o ExpandReplacement(Tail(new), matched)

\* content.replace(new RegExp(pat, 'g'), new): every match, left to right,
\* without overlap.
RECURSIVE RegExpReplaceAll(_, _, _)
RegExpReplaceAll(content, pat, new) ==
    IF content = <<>> THEN <<>>
    ELSE IF PatternLen(pat) > 0 /\ MatchesAt(pat, content)
         THEN ExpandReplacement(new, SubSeq(content, 1, PatternLen(pat)))
              \o RegExpReplaceAll(SubSeq(content, PatternLen(pat) + 1, Len(content)), pat, new)
    ELSE <<Head(content)>> \o RegExpReplaceAll(Tail(content), pat, new)

\* Map.prototype.set on a map kept as a sequence of <<key, value>> in
\* insertion order: an existing key keeps its position.
MapSet(m, k, v) ==
    IF \E i \in 1..Len(m) : m[i][1] = k
    THEN [i \in 1..Len(m) |-> IF m[i][1] = k THEN <<k, v>> ELSE m[i]]
    ELSE Append(m, <<k, v>>)

(***************************************************************************)
(* Bounds and the universe of the model                                    *)
(***************************************************************************)

\* Number of candidate asset paths of AssetPaths in use.
NumAssetPaths == 4
\* Asset contents are "y" and "x" repeated 1..MaxSize times.
MaxSize == 2

SrcDir == <<"s">>
SubDir == <<"s", "/", "d">>
RefDir == <<"r">>
ArchDir == <<"z">>
NoDir == <<>>

AssetPaths ==
    << <<"s", "/", "a", ".", "p">>,
       <<"s", "/", "b", ".", "p">>,
       <<"s", "/", "d", "/", "a", "b", ".", "p">>,
       <<"s", "/", "d", "/", "b", ".", "p">>,
       <<"s", "/", "c", ".", "p">>,
       <<"s", "/", "d", "/", "c", ".", "p">> >>

Assets == {AssetPaths[i] : i \in 1..NumAssetPaths}

RefFile == <<"r", "/", "m", ".", "j", "s">>

\* What archiveDir may hold before the run: nothing, the name of a duplicate,
\* or its first numbered name.
ArchivedBefore ==
    { {},
      {<<"z", "/", "b", ".", "p">>},
      {<<"z", "/", "b", "_", "1", ".", "p">>} }

RefContents ==
    { <<"b", ".", "p">>,
      <<"a", "b", ".", "p">>,
      <<"a", ".", "p">> }

Xs(n) == [i \in 1..n |-> "x"]
ScanContents == {Xs(n) : n \in 1..MaxSize} \cup {<<"y">>}
ConsolidateContents == {<<"x">>, <<"y">>}

\* What the user may type at the prompt.
Answers ==
    { <<"y">>, <<"Y", "E", "S">>, <<"n">>, <<>>, <<"y", " ">> }

(***************************************************************************)
(* State                                                                   *)
(***************************************************************************)

VARIABLES
    files,      \* the regular files: path -> content
    dirs,       \* the directories: a set of paths
    entry,      \* "cli": the find-duplicates command; "api": the exported functions
    flags,      \* the command line flags, or the options of the API caller
    pc,         \* the position of the run
    opts,       \* the options of the findDuplicates call
    fd,         \* findDuplicates: duplicateGroups, the totals and the counts
    result,     \* what findDuplicates resolved to: <<>> or <<DuplicateResult>>
    hd,         \* handleDuplicates: its arguments and locals
    hret,       \* what handleDuplicates resolved to: <<>> or <<counts>>
    printed,    \* the CLI has printed the report
    answer,     \* <<>> or <<the line typed at the prompt>>
    log,        \* the mutating file system calls made so far, in order
    files0,     \* the files when the run began
    prev,       \* what an earlier findDuplicates call of the program resolved to
    faults,     \* the paths on which fs.stat, fs.readFile or fs.readdir fail
    cv          \* the folder-level operations: the call, its tasks and results

vars == <<files, dirs, entry, flags, pc, opts, fd, result, hd, hret, printed, answer, log, files0, prev, faults, cv>>

(***************************************************************************)
(* fs/promises                                                             *)
(***************************************************************************)

isFile(p) == p \in DOMAIN files
isDirectory(p) == p \in dirs
\* fs.access(p) resolves
access(p) == isFile(p) \/ isDirectory(p)
\* fs.stat(p) resolves, fs.readdir(p) resolves, fs.readFile(p) resolves
statOk(p) == access(p) /\ p \notin faults.stat
readdirOk(p) == isDirectory(p) /\ p \notin faults.list

\* Mutant of readFileOk: fs.readFile never fails on a file.
readFileAlwaysOk(p) == isFile(p)

readFileOk(p) == isFile(p) /\ p \notin faults.read

\* The order in which fs.readdir lists a directory is not specified; the
\* model lists the names ascending or descending.
ReaddirOrders == {"asc", "desc"}

\* fs.readdir(dir): the names of the entries of dir.
readdir(dir, ord) ==
    LET names == {basename(p) : p \in {q \in (DOMAIN files) \cup dirs : dirname(q) = dir}}
        sorted == SortStrings(SetToSeq(names))
    IN IF ord = "asc" THEN sorted ELSE Reverse(sorted)

\* getAllFiles: the loop over the entries, and the function itself; a
\* directory that cannot be read yields no file.
\* Mutant of Descend: sub-directories are always entered.
DescendAlways(recursive) == TRUE

\* if (recursive): whether the walk enters a sub-directory.
Descend(recursive) == recursive

RECURSIVE getAllFiles(_, _, _)
RECURSIVE WalkEntries(_, _, _, _)
WalkEntries(dir, entries, recursive, ord) ==
    IF entries = <<>> THEN <<>>
    ELSE LET fullPath == join(dir, Head(entries))
         IN (IF isDirectory(fullPath)
             THEN (IF Descend(recursive) THEN getAllFiles(fullPath, recursive, ord) ELSE <<>>)
             ELSE <<fullPath>>)
            \o WalkEntries(dir, Tail(entries), recursive, ord)

getAllFiles(dir, recursive, ord) ==
    IF ~readdirOk(dir) THEN <<>>
    ELSE WalkEntries(dir, readdir(dir, ord), recursive, ord)

\* getFileHash: the MD5 digest of the content.  MD5 is taken to be free of
\* collisions: the digest determines the content.
getFileHash(content) == <<"m", "d", "5", ":">> \o content

(***************************************************************************)
(* findDuplicates: the scan                                                *)
(***************************************************************************)

\* sizeMap.get(size).push(filePath), after sizeMap.set(size, []) for a new size
SizeMapPush(m, size, p) ==
    LET m1 == IF \E i \in 1..Len(m) : m[i][1] = size THEN m ELSE Append(m, <<size, <<>>>>)
    IN [i \in 1..Len(m1) |-> IF m1[i][1] = size THEN <<size, Append(m1[i][2], p)>> ELSE m1[i]]

\* The loop that fills sizeMap; a file whose stat fails is left out.
RECURSIVE BuildSizeMap(_, _)
BuildSizeMap(paths, m) ==
    IF paths = <<>> THEN m
    ELSE IF ~statOk(Head(paths)) THEN BuildSizeMap(Tail(paths), m)
    ELSE BuildSizeMap(Tail(paths), SizeMapPush(m, Len(files[Head(paths)]), Head(paths)))

\* Mutant of MustHash: a bucket of two files is not hashed.
MustHashThree(bucket) == Len(bucket) > 2

\* A size bucket is hashed when it holds more than one file.
MustHash(bucket) == Len(bucket) > 1

\* Mutant of NewGroupInfo: the length of the bucket is stored as the size.
NewGroupInfoBucketLength(hash, size, bucket) ==
    [hash |-> hash, files |-> <<>>, size |-> Len(bucket)]

\* The entry groupsMap.set(hash, ...) creates for a new hash.
NewGroupInfo(hash, size, bucket) == [hash |-> hash, files |-> <<>>, size |-> size]

\* The loop over the files of one size bucket; a file whose hash fails is
\* left out.
RECURSIVE HashBucket(_, _, _, _)
HashBucket(paths, size, bucket, gm) ==
    IF paths = <<>> THEN gm
    ELSE IF ~readFileOk(Head(paths)) THEN HashBucket(Tail(paths), size, bucket, gm)
    ELSE LET hash == getFileHash(files[Head(paths)])
             gm1 == IF \E i \in 1..Len(gm) : gm[i].hash = hash
                    THEN gm
                    ELSE Append(gm, NewGroupInfo(hash, size, bucket))
             gm2 == [i \in 1..Len(gm1) |->
                        IF gm1[i].hash = hash
                        THEN [gm1[i] EXCEPT !.files = Append(@, Head(paths))]
                        ELSE gm1[i]]
         IN HashBucket(Tail(paths), size, bucket, gm2)

\* The loop over sizeMap that fills groupsMap.
RECURSIVE BuildGroupsMap(_, _)
BuildGroupsMap(sm, gm) ==
    IF sm = <<>> THEN gm
    ELSE BuildGroupsMap(Tail(sm),
            IF MustHash(Head(sm)[2])
            THEN HashBucket(Head(sm)[2], Head(sm)[1], Head(sm)[2], gm)
            ELSE gm)

\* Mutant of IsDuplicateGroup: a single file makes a group.
IsDuplicateGroupOfOne(info) == Len(info.files) >= 1

\* A hash bucket becomes a group when it holds more than one file.
IsDuplicateGroup(info) == Len(info.files) > 1

\* Mutant of SortedFiles: the files stay in the order they were hashed in.
UnsortedFiles(info) == info.files

\* info.files.sort()
SortedFiles(info) == SortStrings(info.files)

\* Mutant of GroupSavings: the kept file is counted as saved too.
GroupSavingsAll(info) == info.size * Len(info.files)

\* What one group adds to totalDuplicates and to totalSavings.
GroupDuplicates(info) == Len(info.files) - 1

GroupSavings(info) == info.size * (Len(info.files) - 1)

\* The loop over groupsMap: duplicateGroups, totalDuplicates, totalSavings.
RECURSIVE CollectGroups(_, _)
CollectGroups(gm, acc) ==
    IF gm = <<>> THEN acc
    ELSE IF IsDuplicateGroup(Head(gm))
    THEN CollectGroups(Tail(gm),
            [groups |-> Append(acc.groups,
                               [hash |-> Head(gm).hash,
                                files |-> SortedFiles(Head(gm)),
                                size |-> Head(gm).size]),
             totalDuplicates |-> acc.totalDuplicates + GroupDuplicates(Head(gm)),
             totalSavings |-> acc.totalSavings + GroupSavings(Head(gm))])
    ELSE CollectGroups(Tail(gm), acc)

\* Lines 89-137 of findDuplicates on the readdir order ord.
Scan(sourceFolder, recursive, ord) ==
    LET allFiles == getAllFiles(sourceFolder, recursive, ord)
        sizeMap == BuildSizeMap(allFiles, <<>>)
        groupsMap == BuildGroupsMap(sizeMap, <<>>)
    IN [totalFiles |-> Len(allFiles)]
       @@ CollectGroups(groupsMap, [groups |-> <<>>, totalDuplicates |-> 0, totalSavings |-> 0])

(***************************************************************************)
(* Records                                                                 *)
(***************************************************************************)

\* The value of findDuplicates' locals before the scan.
FdInit ==
    [groups |-> <<>>, totalFiles |-> 0, totalDuplicates |-> 0, totalSavings |-> 0,
     removedCount |-> 0, referencesUpdated |-> 0]

\* handleDuplicates before it is called.
HdIdle ==
    [caller |-> "none",
     options |-> [deleteDuplicates |-> FALSE, archiveDir |-> NoDir, referenceDirs |-> <<>>],
     groups |-> <<>>, replacements |-> <<>>,
     refDirs |-> <<>>, refQueue |-> <<>>, updatedCount |-> 0,
     toRemove |-> <<>>, removedCount |-> 0]

\* The frame of a call handleDuplicates(groups, options) made by caller.
HdCall(caller, groups, options) ==
    [HdIdle EXCEPT !.caller = caller, !.groups = groups, !.options = options]

\* The messages of the errors findDuplicates may catch: the one of line 86,
\* and those of the errors fs/promises rejects with.
NotADirectoryMessage(sourceFolder) ==
    <<"S", "o", "u", "r", "c", "e", " ", "p", "a", "t", "h", " ", "i", "s", " ",
      "n", "o", "t", " ", "a", " ", "d", "i", "r", "e", "c", "t", "o", "r", "y", ":", " ">>
    \o sourceFolder

FsErrorMessage(code, p) == code \o <<":", " ">> \o p

ENOENT == <<"E", "N", "O", "E", "N", "T">>
EACCES == <<"E", "A", "C", "C", "E", "S">>

\* Mutant of FailureResult: the message is dropped.
FailureResultSilent(message) ==
    [success |-> FALSE, groups |-> <<>>, totalFiles |-> 0, totalDuplicates |-> 0,
     totalSavings |-> 0, removedCount |-> <<>>, referencesUpdated |-> <<>>,
     error |-> <<>>]

\* The object of the catch block of findDuplicates.
FailureResult(message) ==
    [success |-> FALSE, groups |-> <<>>, totalFiles |-> 0, totalDuplicates |-> 0,
     totalSavings |-> 0, removedCount |-> <<>>, referencesUpdated |-> <<>>,
     error |-> message]

\* An entry of the log of mutating calls.
Event(op, path, to) == [op |-> op, path |-> path, to |-> to]

\* The folder-level operations before any is called.
CvIdle ==
    [op |-> "none", phase |-> "idle",
     options |-> [outputDir |-> NoDir, referenceDirs |-> <<>>, deleteOriginals |-> FALSE,
                  archiveDir |-> NoDir, skipConfirmation |-> FALSE],
     tasks |-> <<>>, next |-> 1]

(***************************************************************************)
(* Init                                                                    *)
(***************************************************************************)

DirsOf(fs) ==
    {SrcDir, RefDir} \cup {dirname(p) : p \in DOMAIN fs}

\* No file system call fails.
NoFaults == [stat |-> {}, read |-> {}, list |-> {}]

\* The failures a scan may meet: fs.stat or fs.readFile of one file, or
\* fs.readdir of the sub-directory.
ScanFaults ==
    { [NoFaults EXCEPT !.stat = {AssetPaths[2]}],
      [NoFaults EXCEPT !.read = {AssetPaths[2]}],
      [NoFaults EXCEPT !.list = {SubDir}] }

\* Contents matter only by their length and by being equal or not: of the
\* runs that differ by exchanging "x" and "y" the model keeps the one whose
\* first file of one character holds "x".
FirstShortIsX(fs) ==
    \A i \in 1..NumAssetPaths :
       (/\ AssetPaths[i] \in DOMAIN fs
        /\ Len(fs[AssetPaths[i]]) = 1
        /\ \A j \in 1..(i - 1) :
              AssetPaths[j] \in DOMAIN fs => Len(fs[AssetPaths[j]]) # 1)
          => fs[AssetPaths[i]] = <<"x">>

\* Report-only runs over files of several sizes.
InitScan ==
    /\ \E present \in SUBSET Assets :
         \E fs \in [present -> ScanContents] :
            /\ FirstShortIsX(fs)
            /\ files = fs
            /\ dirs = DirsOf(fs)
    /\ entry = "api"
    /\ \E rec \in BOOLEAN, skip \in BOOLEAN :
         /\ (skip => rec)
         /\ flags = [referenceDirs |-> <<>>, deleteDuplicates |-> FALSE, archiveDir |-> NoDir,
                     recursive |-> rec, skipConfirmation |-> skip]
         /\ faults \in (IF rec /\ ~skip THEN {NoFaults} \cup ScanFaults ELSE {NoFaults})

\* With --yes the command makes the findDuplicates call a program makes with
\* skipConfirmation; it is run with --delete alone and with --archive z alone
\* on an empty archive.
CliYesRun(del, arch, old) ==
    /\ old = {}
    /\ \/ (del /\ arch = NoDir)
       \/ (~del /\ arch = ArchDir)

\* Runs with every combination of the destructive options.
InitConsolidate ==
    /\ \E present \in SUBSET Assets :
         \E fs \in {f \in [present -> ConsolidateContents] : FirstShortIsX(f)} :
            \E refs \in {<<>>, <<RefDir>>} :
               \E rc \in (IF refs = <<>> THEN {<<>>} ELSE {<<>>} \cup {<<c>> : c \in RefContents}) :
                  \E del \in BOOLEAN, arch \in {NoDir, ArchDir, SubDir}, skip \in BOOLEAN :
                     \E old \in (IF arch = ArchDir /\ ~del /\ skip /\ refs = <<>>
                                 THEN ArchivedBefore ELSE {{}}) :
                        /\ ~(del /\ arch = SubDir)
                        /\ entry \in (IF skip /\ ~CliYesRun(del, arch, old)
                                      THEN {"api"} ELSE {"cli", "api"})
                        /\ files = [q \in old |-> <<"o">>]
                                   @@ (IF rc = <<>> THEN fs ELSE (RefFile :> rc[1]) @@ fs)
                        /\ dirs = DirsOf(fs) \cup {dirname(q) : q \in old}
                        /\ flags = [referenceDirs |-> refs, deleteDuplicates |-> del,
                                     archiveDir |-> arch, recursive |-> TRUE,
                                     skipConfirmation |-> skip]
    /\ faults = NoFaults

\* A reference directory's file that is not of the allow-list.
OtherRefFile == <<"r", "/", "n", ".", "p">>

\* Folders for the runs on references: a duplicate whose name is part of the
\* name of the file kept, and a file kept whose name has "$&" in it.
ReferenceFolders ==
    { (AssetPaths[3] :> <<"x">>) @@ (AssetPaths[4] :> <<"x">>),
      (<<"s", "/", "$", "&", ".", "p">> :> <<"x">>) @@ (AssetPaths[2] :> <<"x">>) }

\* What the files of the reference directory hold in these runs.
ReferenceTexts ==
    { <<"b", ".", "p", ";", "b", "x", "p">>,
      <<"a", "b", ".", "p">> }

\* Runs of a program on references: a reference directory with a file of
\* the allow-list and one that is not of it, given once or twice.
InitReferences ==
    /\ \E fs \in ReferenceFolders, rc \in ReferenceTexts :
         /\ files = (RefFile :> rc) @@ (OtherRefFile :> rc) @@ fs
         /\ dirs = DirsOf(fs)
    /\ entry = "api"
    /\ \E refs \in {<<RefDir>>, <<RefDir, RefDir>>}, del \in BOOLEAN :
         flags = [referenceDirs |-> refs, deleteDuplicates |-> del,
                  archiveDir |-> IF del THEN NoDir ELSE ArchDir, recursive |-> TRUE,
                  skipConfirmation |-> TRUE]
    /\ faults = NoFaults

\* Runs on a source path that does not exist, or that is a regular file.
InitMissing ==
    /\ files \in {<<>>, SrcDir :> <<"x">>}
    /\ dirs = {RefDir}
    /\ entry \in {"cli", "api"}
    /\ \E del \in BOOLEAN, rec \in BOOLEAN, skip \in BOOLEAN :
         flags = [referenceDirs |-> <<>>, deleteDuplicates |-> del, archiveDir |-> NoDir,
                  recursive |-> rec, skipConfirmation |-> skip]
    /\ faults = NoFaults

Init ==
    /\ (InitScan \/ InitConsolidate \/ InitReferences \/ InitMissing)
    /\ pc = "start"
    /\ opts = flags
    /\ fd = FdInit
    /\ result = <<>>
    /\ hd = HdIdle
    /\ hret = <<>>
    /\ printed = FALSE
    /\ answer = <<>>
    /\ log = <<>>
    /\ files0 = files
    /\ prev = <<>>
    /\ cv = CvIdle

(***************************************************************************)
(* The find-duplicates command and the API caller                          *)
(***************************************************************************)

\* The options the command passes to findDuplicates: the destructive ones
\* only with --yes.
CliOptions(f) ==
    [f EXCEPT !.deleteDuplicates = IF f.skipConfirmation THEN @ ELSE FALSE,
              !.archiveDir = IF f.skipConfirmation THEN @ ELSE NoDir]

\* Mutant of askConfirmation: everything but "n" confirms.
askConfirmationLoose(line) == toLowerCase(line) # <<"n">>

\* What askConfirmation resolves to on the line the user typed.
askConfirmation(line) ==
    toLowerCase(line) = <<"y">> \/ toLowerCase(line) = <<"y", "e", "s">>

\* The options object both callers hand to handleDuplicates.
HandleOptions(f) ==
    [deleteDuplicates |-> f.deleteDuplicates, archiveDir |-> f.archiveDir,
     referenceDirs |-> f.referenceDirs]

\* The command calls findDuplicates(sourceFolder, {...}).
CliMain ==
    /\ pc = "start"
    /\ entry = "cli"
    /\ opts' = CliOptions(flags)
    /\ pc' = "fd_validate"
    /\ UNCHANGED <<files, dirs, entry, flags, fd, result, hd, hret, printed, answer, log, files0, prev, faults, cv>>

\* A program calls findDuplicates(sourceFolder, options).
ApiFindDuplicates ==
    /\ pc = "start"
    /\ entry = "api"
    /\ opts' = flags
    /\ pc' = "fd_validate"
    /\ UNCHANGED <<files, dirs, entry, flags, fd, result, hd, hret, printed, answer, log, files0, prev, faults, cv>>

(***************************************************************************)
(* findDuplicates                                                          *)
(***************************************************************************)

\* Where findDuplicates' promise is delivered.
AfterFindDuplicates == IF entry = "cli" THEN "cli_then" ELSE "api_returned"

\* fs.access and fs.stat of the source folder; the catch block on failure.
FdValidate ==
    /\ pc = "fd_validate"
    /\ IF isDirectory(SrcDir)
       THEN /\ pc' = "fd_scan"
            /\ UNCHANGED result
       ELSE /\ result' = <<FailureResult(IF access(SrcDir)
                                          THEN NotADirectoryMessage(SrcDir)
                                          ELSE FsErrorMessage(ENOENT, SrcDir))>>
            /\ pc' = AfterFindDuplicates
    /\ UNCHANGED <<files, dirs, entry, flags, opts, fd, hd, hret, printed, answer, log, files0, prev, faults, cv>>

\* Mutant of ShouldHandle: skipConfirmation is not looked at.
ShouldHandleUnconfirmed(o) == o.deleteDuplicates \/ o.archiveDir # NoDir

\* The condition under which findDuplicates itself calls handleDuplicates.
ShouldHandle(o) ==
    o.skipConfirmation /\ (o.deleteDuplicates \/ o.archiveDir # NoDir)

\* The scan, and the decision to consolidate.
FdScan ==
    /\ pc = "fd_scan"
    /\ \E ord \in ReaddirOrders :
         /\ fd' = [removedCount |-> 0, referencesUpdated |-> 0]
                  @@ Scan(SrcDir, opts.recursive, ord)
         /\ IF ShouldHandle(opts)
            THEN /\ hd' = HdCall("fd", fd'.groups, HandleOptions(opts))
                 /\ pc' = "hd_begin"
            ELSE /\ hd' = hd
                 /\ pc' = "fd_return"
    /\ UNCHANGED <<files, dirs, entry, flags, opts, result, hret, printed, answer, log, files0, prev, faults, cv>>

\* The result object; the counts are undefined without skipConfirmation.
FdReturn ==
    /\ pc = "fd_return"
    /\ result' = <<[success |-> TRUE,
                    groups |-> fd.groups,
                    totalFiles |-> fd.totalFiles,
                    totalDuplicates |-> fd.totalDuplicates,
                    totalSavings |-> fd.totalSavings,
                    removedCount |-> IF opts.skipConfirmation THEN <<fd.removedCount>> ELSE <<>>,
                    referencesUpdated |-> IF opts.skipConfirmation THEN <<fd.referencesUpdated>> ELSE <<>>,
                    error |-> <<>>]>>
    /\ pc' = AfterFindDuplicates
    /\ UNCHANGED <<files, dirs, entry, flags, opts, fd, hd, hret, printed, answer, log, files0, prev, faults, cv>>

(***************************************************************************)
(* handleDuplicates                                                        *)
(***************************************************************************)

\* Mutant of NoAction: the early return is missing.
NoActionNever(o) == FALSE

\* Neither deleteDuplicates nor archiveDir: the early return.
NoAction(o) == ~o.deleteDuplicates /\ o.archiveDir = NoDir

\* Mutant of ToRemove: the destructuring keeps nothing back.
ToRemoveAll(group) == group.files

\* const [keepFile, ...toRemove] = group.files
KeepFile(group) == Head(group.files)

ToRemove(group) == Tail(group.files)

\* The loops that fill the replacement map.
RECURSIVE SetReplacements(_, _, _)
SetReplacements(toRemove, keepFileName, m) ==
    IF toRemove = <<>> THEN m
    ELSE SetReplacements(Tail(toRemove), keepFileName,
                         MapSet(m, basename(Head(toRemove)), keepFileName))

RECURSIVE CollectReplacements(_, _)
CollectReplacements(groups, m) ==
    IF groups = <<>> THEN m
    ELSE CollectReplacements(Tail(groups),
            SetReplacements(ToRemove(Head(groups)), basename(KeepFile(Head(groups))), m))

\* Mutant of RemovalOrder: only the first group is visited.
RemovalOrderFirstGroup(groups) ==
    IF groups = <<>> THEN <<>> ELSE ToRemove(Head(groups))

\* The files the destructive loops visit, in order.
RECURSIVE RemovalOrder(_)
RemovalOrder(groups) ==
    IF groups = <<>> THEN <<>>
    ELSE ToRemove(Head(groups)) \o RemovalOrder(Tail(groups))

\* Mutant of HandlePhases: the destructive loops run first.
HandlePhasesSwapped == <<"hd_remove", "hd_rewrite">>

\* The two passes of handleDuplicates in the order of its statements.
HandlePhases == <<"hd_rewrite", "hd_remove">>

AfterPhase(p) == IF p = HandlePhases[1] THEN HandlePhases[2] ELSE "hd_return"

\* The early return, or the replacement map and the arguments of the passes.
HdBegin ==
    /\ pc = "hd_begin"
    /\ IF NoAction(hd.options)
       THEN /\ pc' = "hd_return"
            /\ hd' = hd
       ELSE LET replacements == CollectReplacements(hd.groups, <<>>)
            IN /\ hd' = [hd EXCEPT !.replacements = replacements,
                                   !.refDirs = IF replacements = <<>> THEN <<>>
                                               ELSE hd.options.referenceDirs,
                                   !.toRemove = RemovalOrder(hd.groups)]
               /\ pc' = HandlePhases[1]
    /\ UNCHANGED <<files, dirs, entry, flags, opts, fd, result, hret, printed, answer, log, files0, prev, faults, cv>>

REFERENCE_FILE_EXTENSIONS ==
    { <<".", "t", "s", "x">>, <<".", "t", "s">>, <<".", "j", "s", "x">>, <<".", "j", "s">>,
      <<".", "c", "s", "s">>, <<".", "s", "c", "s", "s">>, <<".", "h", "t", "m", "l">>,
      <<".", "m", "d">>, <<".", "j", "s", "o", "n">> }

\* Mutant of IsReferenceFile: the filter lets every file through.
IsReferenceFileAny(f) == TRUE

IsReferenceFile(f) == toLowerCase(extname(f)) \in REFERENCE_FILE_EXTENSIONS

\* files.filter(...)
RECURSIVE FilterReferenceFiles(_)
FilterReferenceFiles(fs) ==
    IF fs = <<>> THEN <<>>
    ELSE (IF IsReferenceFile(Head(fs)) THEN <<Head(fs)>> ELSE <<>>)
         \o FilterReferenceFiles(Tail(fs))

\* The loop over replacements.entries() on one content.
RECURSIVE ApplyReplacements(_, _)
ApplyReplacements(content, m) ==
    IF m = <<>> THEN content
    ELSE ApplyReplacements(
            RegExpReplaceAll(content, escapeRegExp(Head(m)[1]), Head(m)[2]),
            Tail(m))

\* updateAllReferences: the next directory of referenceDirs is listed.
HdListRefDir ==
    /\ pc = "hd_rewrite"
    /\ hd.refQueue = <<>>
    /\ hd.refDirs # <<>>
    /\ \E ord \in ReaddirOrders :
         hd' = [hd EXCEPT !.refDirs = Tail(@),
                          !.refQueue = FilterReferenceFiles(getAllFiles(Head(hd.refDirs), TRUE, ord))]
    /\ UNCHANGED <<files, dirs, entry, flags, pc, opts, fd, result, hret, printed, answer, log, files0, prev, faults, cv>>

\* updateAllReferences: one reference file is read, and written if its
\* content changed; a file that cannot be read is skipped.
HdRewriteFile ==
    /\ pc = "hd_rewrite"
    /\ hd.refQueue # <<>>
    /\ LET file == Head(hd.refQueue)
           content == IF isFile(file) THEN ApplyReplacements(files[file], hd.replacements)
                      ELSE <<>>
       IN IF isFile(file) /\ content # files[file]
          THEN /\ files' = [files EXCEPT ![file] = content]
               /\ log' = Append(log, Event("writeFile", file, <<>>))
               /\ hd' = [hd EXCEPT !.refQueue = Tail(@), !.updatedCount = @ + 1]
          ELSE /\ hd' = [hd EXCEPT !.refQueue = Tail(@)]
               /\ UNCHANGED <<files, log>>
    /\ UNCHANGED <<dirs, entry, flags, pc, opts, fd, result, hret, printed, answer, files0, prev, faults, cv>>

\* updateAllReferences returns.
HdRewriteDone ==
    /\ pc = "hd_rewrite"
    /\ hd.refQueue = <<>>
    /\ hd.refDirs = <<>>
    /\ pc' = AfterPhase("hd_rewrite")
    /\ UNCHANGED <<files, dirs, entry, flags, opts, fd, result, hd, hret, printed, answer, log, files0, prev, faults, cv>>

\* Mutant of FreeDestPath: the first candidate is taken as it is.
FreeDestPathUnchecked(archiveDir, removeFileName, finalDestPath, counter) == finalDestPath

\* The while loop that looks for a free name in archiveDir.
RECURSIVE FreeDestPath(_, _, _, _)
FreeDestPath(archiveDir, removeFileName, finalDestPath, counter) ==
    IF access(finalDestPath)
    THEN LET ext == extname(removeFileName)
             name == basenameNoExt(removeFileName, ext)
         IN FreeDestPath(archiveDir, removeFileName,
                         join(archiveDir, name \o <<"_">> \o NumToString(counter) \o ext),
                         counter + 1)
    ELSE finalDestPath

\* Mutant of RemovalMode: archiveDir is looked at first.
RemovalModeArchiveFirst(o) ==
    IF o.archiveDir # NoDir THEN "archive"
    ELSE IF o.deleteDuplicates THEN "delete" ELSE "none"

\* if (deleteDuplicates) ... else if (archiveDir) ...
RemovalMode(o) ==
    IF o.deleteDuplicates THEN "delete"
    ELSE IF o.archiveDir # NoDir THEN "archive" ELSE "none"

\* The destructive loop on one file: unlink, or mkdir and rename to a free
\* name of archiveDir; with neither option the file is passed over.
HdRemoveFile ==
    /\ pc = "hd_remove"
    /\ hd.toRemove # <<>>
    /\ LET removeFile == Head(hd.toRemove)
           removeFileName == basename(removeFile)
           archiveDir == hd.options.archiveDir
       IN IF RemovalMode(hd.options) = "delete"
          THEN /\ isFile(removeFile)
               /\ files' = [q \in (DOMAIN files) \ {removeFile} |-> files[q]]
               /\ log' = Append(log, Event("unlink", removeFile, <<>>))
               /\ hd' = [hd EXCEPT !.toRemove = Tail(@), !.removedCount = @ + 1]
               /\ UNCHANGED dirs
          ELSE IF RemovalMode(hd.options) = "archive"
          THEN /\ isFile(removeFile)
               /\ ~isFile(archiveDir)
               /\ dirs' = dirs \cup {archiveDir}
               /\ LET finalDestPath ==
                         FreeDestPath(archiveDir, removeFileName,
                                      join(archiveDir, removeFileName), 1)
                  IN /\ files' = [q \in ((DOMAIN files) \ {removeFile}) \cup {finalDestPath} |->
                                     IF q = finalDestPath THEN files[removeFile] ELSE files[q]]
                     /\ log' = log
                               \o (IF isDirectory(archiveDir) THEN <<>>
                                   ELSE <<Event("mkdir", archiveDir, <<>>)>>)
                               \o <<Event("rename", removeFile, finalDestPath)>>
               /\ hd' = [hd EXCEPT !.toRemove = Tail(@), !.removedCount = @ + 1]
          ELSE /\ hd' = [hd EXCEPT !.toRemove = Tail(@)]
               /\ UNCHANGED <<files, dirs, log>>
    /\ UNCHANGED <<entry, flags, pc, opts, fd, result, hret, printed, answer, files0, prev, faults, cv>>

\* fs.unlink or fs.rename rejects: handleDuplicates rejects; findDuplicates
\* catches it, the command's catch exits with 1.
HdRemoveFails ==
    /\ pc = "hd_remove"
    /\ hd.toRemove # <<>>
    /\ (hd.options.deleteDuplicates \/ hd.options.archiveDir # NoDir)
    /\ IF hd.caller = "fd"
       THEN /\ result' = <<FailureResult(FsErrorMessage(EACCES, Head(hd.toRemove)))>>
            /\ pc' = AfterFindDuplicates
       ELSE /\ pc' = IF hd.caller = "cli" THEN "exit1" ELSE "rejected"
            /\ UNCHANGED result
    /\ UNCHANGED <<files, dirs, entry, flags, opts, fd, hd, hret, printed, answer, log, files0, prev, faults, cv>>

\* The destructive loops are over.
HdRemoveDone ==
    /\ pc = "hd_remove"
    /\ hd.toRemove = <<>>
    /\ pc' = AfterPhase("hd_remove")
    /\ UNCHANGED <<files, dirs, entry, flags, opts, fd, result, hd, hret, printed, answer, log, files0, prev, faults, cv>>

\* handleDuplicates resolves to its counts, and its caller goes on.
HdReturn ==
    /\ pc = "hd_return"
    /\ hret' = <<[removedCount |-> hd.removedCount, referencesUpdated |-> hd.updatedCount]>>
    /\ IF hd.caller = "fd"
       THEN /\ fd' = [fd EXCEPT !.removedCount = hd.removedCount,
                                !.referencesUpdated = hd.updatedCount]
            /\ pc' = "fd_return"
       ELSE /\ fd' = fd
            /\ pc' = "done"
    /\ UNCHANGED <<files, dirs, entry, flags, opts, result, hd, printed, answer, log, files0, prev, faults, cv>>

(***************************************************************************)
(* After findDuplicates                                                    *)
(***************************************************************************)

\* The then-handler of the command prints the report; a failure exits with 1.
CliReport ==
    /\ pc = "cli_then"
    /\ IF ~result[1].success
       THEN /\ pc' = "exit1"
            /\ UNCHANGED printed
       ELSE /\ printed' = TRUE
            /\ pc' = IF /\ result[1].groups # <<>>
                        /\ (flags.deleteDuplicates \/ flags.archiveDir # NoDir)
                        /\ ~flags.skipConfirmation
                     THEN "cli_prompt"
                     ELSE "done"
    /\ UNCHANGED <<files, dirs, entry, flags, opts, fd, result, hd, hret, answer, log, files0, prev, faults, cv>>

\* The user answers the prompt; on a confirmation the command calls
\* handleDuplicates.
CliAnswer ==
    /\ pc = "cli_prompt"
    /\ \E line \in Answers :
         /\ answer' = <<line>>
         /\ IF askConfirmation(line)
            THEN /\ hd' = HdCall("cli", result[1].groups, HandleOptions(flags))
                 /\ pc' = "hd_begin"
            ELSE /\ hd' = hd
                 /\ pc' = "done"
    /\ UNCHANGED <<files, dirs, entry, flags, opts, fd, result, hret, printed, log, files0, prev, faults, cv>>

\* A program that asked for a report only (no destructive option, no
\* skipConfirmation) and met no failure calls findDuplicates again with the
\* same arguments; the first report is kept.
ApiFindDuplicatesAgain ==
    /\ pc = "api_returned"
    /\ prev = <<>>
    /\ NoAction(HandleOptions(opts))
    /\ ~opts.skipConfirmation
    /\ faults = NoFaults
    /\ prev' = result
    /\ result' = <<>>
    /\ fd' = FdInit
    /\ pc' = "fd_validate"
    /\ UNCHANGED <<files, dirs, entry, flags, opts, hd, hret, printed, answer, log, files0, faults, cv>>

\* A program that reviewed the report calls handleDuplicates(result.groups, options).
ApiHandleDuplicates ==
    /\ pc = "api_returned"
    /\ result[1].success
    /\ ~ShouldHandle(opts)
    /\ hd' = HdCall("api", result[1].groups, HandleOptions(flags))
    /\ pc' = "hd_begin"
    /\ UNCHANGED <<files, dirs, entry, flags, opts, fd, result, hret, printed, answer, log, files0, prev, faults, cv>>

Next ==
    \/ CliMain
    \/ ApiFindDuplicates
    \/ ApiFindDuplicatesAgain
    \/ FdValidate
    \/ FdScan
    \/ FdReturn
    \/ HdBegin
    \/ HdListRefDir
    \/ HdRewriteFile
    \/ HdRewriteDone
    \/ HdRemoveFile
    \/ HdRemoveFails
    \/ HdRemoveDone
    \/ HdReturn
    \/ CliReport
    \/ CliAnswer
    \/ ApiHandleDuplicates

Spec == Init /\ [][Next]_vars

(***************************************************************************)
(* The folder-level operations: convertImagesInFolders,                    *)
(* optimizeSvgsInFolders, optimizePdfsInFolders                            *)
(***************************************************************************)

OutDir == <<"o">>

IMAGE_EXTENSIONS ==
    { <<".", "j", "p", "g">>, <<".", "j", "p", "e", "g">>, <<".", "p", "n", "g">>,
      <<".", "g", "i", "f">>, <<".", "t", "i", "f", "f">>, <<".", "b", "m", "p">> }

SvgExtension == <<".", "s", "v", "g">>
PdfExtension == <<".", "p", "d", "f">>

\* The files a folder may hold for each operation, and one no operation
\* looks at.
ConvInputs(op) ==
    CASE op = "image" -> { <<"s", "/", "a", ".", "p", "n", "g">>,
                           <<"s", "/", "b", ".", "P", "N", "G">> }
      [] op = "svg"   -> { <<"s", "/", "a", ".", "s", "v", "g">>,
                           <<"s", "/", "d", "/", "a", ".", "s", "v", "g">> }
      [] op = "pdf"   -> { <<"s", "/", "a", ".", "p", "d", "f">>,
                           <<"s", "/", "d", "/", "a", ".", "p", "d", "f">> }

OtherFile == <<"s", "/", "c", ".", "t", "x", "t">>

\* What the reference file holds: the names of both images, or of one.
ConvRefContents ==
    { <<"a", ".", "p", "n", "g", ";", "b", ".", "P", "N", "G">>,
      <<"a", ".", "p", "n", "g">> }

\* The bytes sharp, svgo and pdf-lib produce from a content.
Converted(op, content) ==
    (CASE op = "image" -> <<"w">> [] op = "svg" -> <<"v">> [] op = "pdf" -> <<"f">>)
    \o content

\* The files an operation picks from its source folder.
IsInput(op, name) ==
    CASE op = "image" -> toLowerCase(extname(name)) \in IMAGE_EXTENSIONS
      [] op = "svg"   -> toLowerCase(extname(name)) = SvgExtension
      [] op = "pdf"   -> toLowerCase(extname(name)) = PdfExtension

RECURSIVE FilterInputs(_, _)
FilterInputs(op, fs) ==
    IF fs = <<>> THEN <<>>
    ELSE (IF IsInput(op, Head(fs)) THEN <<Head(fs)>> ELSE <<>>)
         \o FilterInputs(op, Tail(fs))

RECURSIVE JoinAll(_, _)
JoinAll(dir, names) ==
    IF names = <<>> THEN <<>>
    ELSE <<join(dir, Head(names))>> \o JoinAll(dir, Tail(names))

\* imagePaths, svgPaths, pdfPaths: convertImagesInFolders lists the source
\* folder itself, the optimizers walk it with their getAllFiles, which is
\* getAllFiles above with recursive always true.
InputPaths(op, sourceFolder, ord) ==
    IF op = "image"
    THEN JoinAll(sourceFolder, FilterInputs(op, readdir(sourceFolder, ord)))
    ELSE FilterInputs(op, getAllFiles(sourceFolder, TRUE, ord))

\* outputPath: `${name}.${format}` for an image (format webp), the input's
\* base name for the optimizers; in outputDir or in the input's directory.
OutputPath(op, inputPath, outputDir) ==
    LET base == basename(inputPath)
        name == basenameNoExt(base, extname(base))
    IN join(IF outputDir # NoDir THEN outputDir ELSE dirname(inputPath),
            IF op = "image" THEN name \o <<".", "w", "e", "b", "p">> ELSE base)

\* Mutant of TaskDelete: the tasks always get deleteOriginals.
TaskDeleteUngated(op, o) == o.deleteOriginals

\* The deleteOriginals and archiveDir the folder-level call passes to the
\* per-file calls: none for images, the caller's under skipConfirmation for
\* the optimizers.
TaskDelete(op, o) ==
    IF op = "image" THEN FALSE ELSE (o.skipConfirmation /\ o.deleteOriginals)

TaskArchive(op, o) ==
    IF op = "image" THEN NoDir
    ELSE IF o.skipConfirmation THEN o.archiveDir ELSE NoDir

\* One convertImage, optimizeSvg or optimizePdf call.
NewTask(op, inputPath, o) ==
    [inputPath |-> inputPath,
     outputPath |-> OutputPath(op, inputPath, o.outputDir),
     tpc |-> IF op = "image" THEN "write" ELSE "read",
     buf |-> <<>>,
     refDirs |-> IF op = "pdf" THEN <<>> ELSE o.referenceDirs,
     refQueue |-> <<>>,
     pending |-> <<>>,
     referencesUpdated |-> 0,
     success |-> FALSE,
     originalHandled |-> "none",
     deleteOriginals |-> TaskDelete(op, o),
     archiveDir |-> TaskArchive(op, o)]

RECURSIVE NewTasks(_, _, _)
NewTasks(op, paths, o) ==
    IF paths = <<>> THEN <<>>
    ELSE <<NewTask(op, Head(paths), o)>> \o NewTasks(op, Tail(paths), o)

\* A task's catch block: success false.
Failed(t) == [t EXCEPT !.tpc = "done", !.success = FALSE]

\* handleOriginalFile: what it returns, whether it throws, and what it does
\* to the file system (imageConverter renames, the optimizers copy and unlink).
HandledAs(deleteOriginals, archiveDir) ==
    IF deleteOriginals THEN "deleted"
    ELSE IF archiveDir # NoDir THEN "archived" ELSE "kept"

HandleOriginalFileThrows(inputPath, deleteOriginals, archiveDir) ==
    /\ (deleteOriginals \/ archiveDir # NoDir)
    /\ ~isFile(inputPath)

handleOriginalFile(op, inputPath, deleteOriginals, archiveDir) ==
    IF deleteOriginals
    THEN /\ files' = [q \in (DOMAIN files) \ {inputPath} |-> files[q]]
         /\ log' = Append(log, Event("unlink", inputPath, <<>>))
         /\ UNCHANGED dirs
    ELSE IF archiveDir # NoDir
    THEN LET archivePath == join(archiveDir, basename(inputPath))
         IN /\ dirs' = dirs \cup {archiveDir}
            /\ files' = [q \in ((DOMAIN files) \ {inputPath}) \cup {archivePath} |->
                            IF q = archivePath THEN files[inputPath] ELSE files[q]]
            /\ log' = IF op # "image"
                      THEN log \o <<Event("copyFile", inputPath, archivePath),
                                    Event("unlink", inputPath, <<>>)>>
                      ELSE Append(log, Event("rename", inputPath, archivePath))
    ELSE UNCHANGED <<files, dirs, log>>

ConvRest == <<entry, flags, pc, opts, fd, result, hd, hret, printed, answer, files0, prev, faults>>

\* The folder-level call lists the folder and starts one task per input.
CvStart ==
    /\ cv.phase = "start"
    /\ \E ord \in ReaddirOrders :
         cv' = [cv EXCEPT !.tasks = NewTasks(cv.op, InputPaths(cv.op, SrcDir, ord), cv.options),
                          !.phase = "tasks"]
    /\ UNCHANGED <<files, dirs, log>>
    /\ UNCHANGED ConvRest

\* optimizeSvg, optimizePdf: fs.readFile(inputPath).
CvTaskRead ==
    /\ cv.phase = "tasks"
    /\ \E i \in 1..Len(cv.tasks) :
         LET t == cv.tasks[i]
         IN /\ t.tpc = "read"
            /\ cv' = [cv EXCEPT !.tasks[i] =
                         IF isFile(t.inputPath)
                         THEN [t EXCEPT !.tpc = "write", !.buf = files[t.inputPath]]
                         ELSE Failed(t)]
    /\ UNCHANGED <<files, dirs, log>>
    /\ UNCHANGED ConvRest

\* Where a task goes after its output is written.
AfterWrite(t) == IF t.refDirs # <<>> THEN "refs" ELSE "handle"

\* The output is produced: fs.mkdir(outputDir) and sharp's toFile, or
\* fs.writeFile of the optimised bytes.
CvTaskWrite ==
    /\ cv.phase = "tasks"
    /\ \E i \in 1..Len(cv.tasks) :
         LET t == cv.tasks[i]
             source == IF cv.op = "image" THEN files[t.inputPath] ELSE t.buf
         IN /\ t.tpc = "write"
            /\ (cv.op = "image") => isFile(t.inputPath)
            /\ files' = (t.outputPath :> Converted(cv.op, source)) @@ files
            /\ dirs' = dirs \cup (IF cv.options.outputDir # NoDir
                                  THEN {cv.options.outputDir} ELSE {})
            /\ log' = Append(log, Event("writeFile", t.outputPath, <<>>))
            /\ cv' = [cv EXCEPT !.tasks[i] = [t EXCEPT !.tpc = AfterWrite(t)]]
    /\ UNCHANGED ConvRest

\* sharp, svgo or pdf-lib throws on the input: the task's catch block.
CvTaskFails ==
    /\ cv.phase = "tasks"
    /\ \E i \in 1..Len(cv.tasks) :
         /\ cv.tasks[i].tpc = "write"
         /\ cv' = [cv EXCEPT !.tasks[i] = Failed(cv.tasks[i])]
    /\ UNCHANGED <<files, dirs, log>>
    /\ UNCHANGED ConvRest

\* updateReferences of one task: the next directory is listed, or the loop
\* over referenceDirs is over.
CvTaskListRefDir ==
    /\ cv.phase = "tasks"
    /\ \E i \in 1..Len(cv.tasks) :
         LET t == cv.tasks[i]
         IN /\ t.tpc = "refs"
            /\ t.refQueue = <<>>
            /\ IF t.refDirs = <<>>
               THEN cv' = [cv EXCEPT !.tasks[i] = [t EXCEPT !.tpc = "handle"]]
               ELSE \E ord \in ReaddirOrders :
                       cv' = [cv EXCEPT !.tasks[i] =
                                 [t EXCEPT !.refDirs = Tail(@),
                                           !.refQueue = FilterReferenceFiles(
                                               getAllFiles(Head(t.refDirs), TRUE, ord))]]
    /\ UNCHANGED <<files, dirs, log>>
    /\ UNCHANGED ConvRest

\* content.replace(new RegExp(escaped oldFileName, 'g'), newFileName)
ReplaceFileName(content, oldPath, newPath) ==
    RegExpReplaceAll(content, escapeRegExp(basename(oldPath)), basename(newPath))

\* updateReferences of one task: fs.readFile of the next reference file and
\* the replacement; a changed content is held for the write.
CvTaskReadRef ==
    /\ cv.phase = "tasks"
    /\ \E i \in 1..Len(cv.tasks) :
         LET t == cv.tasks[i]
             file == Head(t.refQueue)
         IN /\ t.tpc = "refs"
            /\ t.refQueue # <<>>
            /\ t.pending = <<>>
            /\ cv' = [cv EXCEPT !.tasks[i] =
                         IF isFile(file)
                            /\ ReplaceFileName(files[file], t.inputPath, t.outputPath) # files[file]
                         THEN [t EXCEPT !.pending =
                                  <<ReplaceFileName(files[file], t.inputPath, t.outputPath)>>]
                         ELSE [t EXCEPT !.refQueue = Tail(@)]]
    /\ UNCHANGED <<files, dirs, log>>
    /\ UNCHANGED ConvRest

\* updateReferences of one task: fs.writeFile of the changed content.
CvTaskWriteRef ==
    /\ cv.phase = "tasks"
    /\ \E i \in 1..Len(cv.tasks) :
         LET t == cv.tasks[i]
             file == Head(t.refQueue)
         IN /\ t.tpc = "refs"
            /\ t.pending # <<>>
            /\ files' = (file :> t.pending[1]) @@ files
            /\ log' = Append(log, Event("writeFile", file, <<>>))
            /\ cv' = [cv EXCEPT !.tasks[i] =
                         [t EXCEPT !.pending = <<>>, !.refQueue = Tail(@),
                                   !.referencesUpdated = @ + 1]]
    /\ UNCHANGED dirs
    /\ UNCHANGED ConvRest

\* path.resolve of a relative path: the working directory in front of it.
resolve(p) ==
    IF p # <<>> /\ p[1] = "/" THEN p ELSE <<"/", "w", "/">> \o p

\* Mutant of OutputIsInput: the output is never taken for the input.
OutputIsInputNever(op, inputPath, outputPath) == FALSE

\* The optimizers' test path.resolve(inputPath) !== path.resolve(outputPath),
\* negated; imageConverter has no such test.
OutputIsInput(op, inputPath, outputPath) ==
    /\ op # "image"
    /\ resolve(inputPath) = resolve(outputPath)

\* The end of a task: handleOriginalFile, which the optimizers call only
\* when the output path differs from the input path.
CvTaskHandleOriginal ==
    /\ cv.phase = "tasks"
    /\ \E i \in 1..Len(cv.tasks) :
         LET t == cv.tasks[i]
         IN /\ t.tpc = "handle"
            /\ IF OutputIsInput(cv.op, t.inputPath, t.outputPath)
               THEN /\ cv' = [cv EXCEPT !.tasks[i] =
                                 [t EXCEPT !.tpc = "done", !.success = TRUE,
                                           !.originalHandled = "kept"]]
                    /\ UNCHANGED <<files, dirs, log>>
               ELSE IF HandleOriginalFileThrows(t.inputPath, t.deleteOriginals, t.archiveDir)
               THEN /\ cv' = [cv EXCEPT !.tasks[i] = Failed(t)]
                    /\ UNCHANGED <<files, dirs, log>>
               ELSE /\ handleOriginalFile(cv.op, t.inputPath, t.deleteOriginals, t.archiveDir)
                    /\ cv' = [cv EXCEPT !.tasks[i] =
                                 [t EXCEPT !.tpc = "done", !.success = TRUE,
                                           !.originalHandled =
                                               HandledAs(t.deleteOriginals, t.archiveDir)]]
    /\ UNCHANGED ConvRest

\* Promise.all has resolved: convertImagesInFolders goes on to its own loop
\* over the results under skipConfirmation, the others return.
CvAllSettled ==
    /\ cv.phase = "tasks"
    /\ \A i \in 1..Len(cv.tasks) : cv.tasks[i].tpc = "done"
    /\ cv' = [cv EXCEPT !.phase =
                 IF /\ cv.op = "image"
                    /\ cv.options.skipConfirmation
                    /\ (cv.options.deleteOriginals \/ cv.options.archiveDir # NoDir)
                 THEN "handle" ELSE "returned",
                        !.next = 1]
    /\ UNCHANGED <<files, dirs, log>>
    /\ UNCHANGED ConvRest

\* A program that reviewed the results calls handleOriginalsAfterReview with
\* the options it had asked for.
CvReviewCall ==
    /\ cv.phase = "returned"
    /\ ~cv.options.skipConfirmation
    /\ (cv.options.deleteOriginals \/ cv.options.archiveDir # NoDir)
    /\ cv' = [cv EXCEPT !.phase = "review", !.next = 1]
    /\ UNCHANGED <<files, dirs, log>>
    /\ UNCHANGED ConvRest

\* One round of the loop over the results, in convertImagesInFolders or in
\* handleOriginalsAfterReview; a throw of handleOriginalFile rejects the call.
CvHandleNext ==
    /\ cv.phase \in {"handle", "review"}
    /\ cv.next <= Len(cv.tasks)
    /\ LET t == cv.tasks[cv.next]
       IN IF ~t.success \/ OutputIsInput(cv.op, t.inputPath, t.outputPath)
          THEN /\ cv' = [cv EXCEPT !.next = @ + 1]
               /\ UNCHANGED <<files, dirs, log>>
          ELSE IF HandleOriginalFileThrows(t.inputPath, cv.options.deleteOriginals,
                                           cv.options.archiveDir)
          THEN /\ cv' = [cv EXCEPT !.phase = "rejected"]
               /\ UNCHANGED <<files, dirs, log>>
          ELSE /\ handleOriginalFile(cv.op, t.inputPath, cv.options.deleteOriginals,
                                     cv.options.archiveDir)
               /\ cv' = [cv EXCEPT !.next = @ + 1,
                                   !.tasks[cv.next].originalHandled =
                                       HandledAs(cv.options.deleteOriginals,
                                                 cv.options.archiveDir)]
    /\ UNCHANGED ConvRest

\* The loop over the results is over.
CvHandleDone ==
    /\ cv.phase \in {"handle", "review"}
    /\ cv.next > Len(cv.tasks)
    /\ cv' = [cv EXCEPT !.phase = IF cv.phase = "handle" THEN "returned" ELSE "reviewed"]
    /\ UNCHANGED <<files, dirs, log>>
    /\ UNCHANGED ConvRest

\* The outputDir of a call: none, a directory of its own, and for the
\* optimizers the source folder itself.
ConvOutputDirs(op) ==
    {NoDir, OutDir} \cup (IF op = "image" THEN {} ELSE {SrcDir})

\* A folder with some of the inputs of one operation, a reference file, and
\* every combination of the options.
ConvInit ==
    /\ \E op \in {"image", "svg", "pdf"} :
         \E present \in SUBSET ConvInputs(op) :
            \E refs \in (IF op = "pdf" THEN {<<>>} ELSE {<<>>, <<RefDir>>}) :
               \E rc \in (IF refs = <<>> THEN {<<>>} ELSE {<<c>> : c \in ConvRefContents}) :
                  \E out \in ConvOutputDirs(op), del \in BOOLEAN,
                     arch \in {NoDir, ArchDir}, skip \in BOOLEAN :
                     /\ files = (IF rc = <<>> THEN <<>> ELSE (RefFile :> rc[1]))
                                @@ (OtherFile :> <<"t">>)
                                @@ [q \in present |-> <<"i">>]
                     /\ dirs = {SrcDir, RefDir} \cup {dirname(q) : q \in present}
                     /\ cv = [CvIdle EXCEPT
                                 !.op = op, !.phase = "start",
                                 !.options = [outputDir |-> out, referenceDirs |-> refs,
                                              deleteOriginals |-> del, archiveDir |-> arch,
                                              skipConfirmation |-> skip]]
    /\ entry = "folders"
    /\ flags = [referenceDirs |-> <<>>, deleteDuplicates |-> FALSE, archiveDir |-> NoDir,
                recursive |-> TRUE, skipConfirmation |-> FALSE]
    /\ pc = "folders"
    /\ opts = flags
    /\ fd = FdInit
    /\ result = <<>>
    /\ hd = HdIdle
    /\ hret = <<>>
    /\ printed = FALSE
    /\ answer = <<>>
    /\ log = <<>>
    /\ files0 = files
    /\ prev = <<>>
    /\ faults = NoFaults

ConvNext ==
    \/ CvStart
    \/ CvTaskRead
    \/ CvTaskWrite
    \/ CvTaskFails
    \/ CvTaskListRefDir
    \/ CvTaskReadRef
    \/ CvTaskWriteRef
    \/ CvTaskHandleOriginal
    \/ CvAllSettled
    \/ CvReviewCall
    \/ CvHandleNext
    \/ CvHandleDone

ConvSpec == ConvInit /\ [][ConvNext]_vars

(***************************************************************************)
(* Properties                                                              *)
(***************************************************************************)

Removals == {"unlink", "rename"}

\* The groups findDuplicates returned, <<>> before it returns.
ReturnedGroups == IF result = <<>> THEN <<>> ELSE result[1].groups

\* a sorts strictly before b: at the first position where they differ a
\* has the smaller code unit, or a ends there.
LexBefore(a, b) ==
    \E k \in 1..Len(b) :
       /\ k <= Len(a) + 1
       /\ \A i \in 1..(k - 1) : a[i] = b[i]
       /\ (k = Len(a) + 1 \/ CodeUnit[a[k]] < CodeUnit[b[k]])

\* C1: in and after a handleDuplicates call that deletes or archives, the
\* first file of every group is a file at its path, and no unlink or rename
\* has had it as its source or as its destination.
CanonicalFileKept ==
    (hd.caller # "none" /\ (hd.options.deleteDuplicates \/ hd.options.archiveDir # NoDir)) =>
        \A g \in 1..Len(hd.groups) :
           LET keep == hd.groups[g].files[1]
           IN /\ keep \in DOMAIN files
              /\ \A e \in 1..Len(log) :
                    log[e].op \in Removals => (log[e].path # keep /\ log[e].to # keep)

\* C1 witness: handleDuplicates has returned after archiving two files into
\* a directory of the scanned tree.
CanonicalFileKeptWitness ==
    /\ hret # <<>>
    /\ hd.removedCount >= 2
    /\ ~hd.options.deleteDuplicates
    /\ hd.options.archiveDir = SubDir

\* C2: no reference file is written after an unlink or rename, and when a
\* file is removed no reference directory or file is left to be visited.
RewriteBeforeRemoval ==
    /\ \A i, j \in 1..Len(log) :
          (i < j /\ log[i].op \in Removals) => log[j].op # "writeFile"
    /\ (\E i \in 1..Len(log) : log[i].op \in Removals) =>
          (hd.refQueue = <<>> /\ hd.refDirs = <<>>)

\* C2 witness: a reference file was written and a duplicate was then moved
\* to the archive.
RewriteBeforeRemovalWitness ==
    \E i, j \in 1..Len(log) :
       /\ i < j
       /\ log[i].op = "writeFile"
       /\ log[j].op = "rename"

\* C3 as claimed: after a deleting handleDuplicates call with reference
\* directories, every allow-listed file under them that contained the base
\* name of a non-canonical member contains the base name of the canonical
\* file of that group and no longer the member's.  It is stated for the
\* members whose base name is not part of the canonical base name: for the
\* others no content meets both conditions.
ReferencesNameCanonicalOnly ==
    (hret # <<>> /\ hd.options.deleteDuplicates /\ hd.options.referenceDirs # <<>>) =>
        \A g \in 1..Len(hd.groups) : \A k \in 2..Len(hd.groups[g].files) :
           \A f \in DOMAIN files0 :
              LET dupName == basename(hd.groups[g].files[k])
                  keepName == basename(hd.groups[g].files[1])
              IN (/\ dirname(f) \in Range(hd.options.referenceDirs)
                  /\ toLowerCase(extname(f)) \in REFERENCE_FILE_EXTENSIONS
                  /\ ~Includes(keepName, dupName)
                  /\ Includes(files0[f], dupName)) =>
                     (/\ f \in DOMAIN files
                      /\ Includes(files[f], keepName)
                      /\ ~Includes(files[f], dupName))

YesLines == { <<"y">>, <<"Y">>, <<"y", "e", "s">>, <<"Y", "E", "S">> }

NeitherOptionIsNoOp ==
    (hret # <<>> /\ ~hd.options.deleteDuplicates /\ hd.options.archiveDir = NoDir) =>
        /\ hret[1] = [removedCount |-> 0, referencesUpdated |-> 0]
        /\ files = files0
        /\ log = <<>>

\* C6 witness: such a call returned, with groups and with a reference
\* directory whose file names a duplicate.
NeitherOptionIsNoOpWitness ==
    /\ hret # <<>>
    /\ ~hd.options.deleteDuplicates
    /\ hd.options.archiveDir = NoDir
    /\ hd.groups # <<>>
    /\ hd.options.referenceDirs # <<>>
    /\ RefFile \in DOMAIN files
    /\ Includes(files[RefFile], basename(hd.groups[1].files[2]))

\* C7: in every group findDuplicates returns, each file sorts strictly
\* before the files after it, so the first file is the smallest.
GroupFilesAscending ==
    \A g \in 1..Len(ReturnedGroups) :
       LET fs == ReturnedGroups[g].files
       IN \A i, j \in 1..Len(fs) : i < j => LexBefore(fs[i], fs[j])

\* C7 witness: a returned group of three files, one of them in the
\* sub-directory.
GroupFilesAscendingWitness ==
    \E g \in 1..Len(ReturnedGroups) :
       /\ Len(ReturnedGroups[g].files) >= 3
       /\ \E i \in 1..Len(ReturnedGroups[g].files) :
             dirname(ReturnedGroups[g].files[i]) = SubDir

\* The files of the scanned tree that hold the content with digest hash.
FilesWithHash(hash) ==
    {p \in DOMAIN files0 :
        dirname(p) \in {SrcDir, SubDir} /\ getFileHash(files0[p]) = hash}

\* C8: every returned group lists at least two files, no file twice, and
\* its hash is the hash of at least two files of the tree.
GroupsHaveTwoFiles ==
    \A g \in 1..Len(ReturnedGroups) :
       LET fs == ReturnedGroups[g].files
       IN /\ Len(fs) >= 2
          /\ Cardinality(Range(fs)) = Len(fs)
          /\ Cardinality(FilesWithHash(ReturnedGroups[g].hash)) >= 2

\* C8 witness: a group was returned while a file of the same size, which
\* was hashed with it, has a hash of its own.
GroupsHaveTwoFilesWitness ==
    /\ ReturnedGroups # <<>>
    /\ \E p \in DOMAIN files0 :
          /\ dirname(p) = SrcDir
          /\ Len(files0[p]) = ReturnedGroups[1].size
          /\ FilesWithHash(getFileHash(files0[p])) = {p}

\* C9: every file of a returned group has the size the group records.
GroupSizeIsMemberSize ==
    \A g \in 1..Len(ReturnedGroups) :
       \A i \in 1..Len(ReturnedGroups[g].files) :
          Len(files0[ReturnedGroups[g].files[i]]) = ReturnedGroups[g].size

\* C9 witness: two groups of different sizes were returned.
GroupSizeIsMemberSizeWitness ==
    \E g, h \in 1..Len(ReturnedGroups) :
       ReturnedGroups[g].size # ReturnedGroups[h].size

RECURSIVE SumOverGroups(_, _)
SumOverGroups(groups, withSize) ==
    IF groups = <<>> THEN 0
    ELSE (IF withSize THEN Head(groups).size ELSE 1) * (Len(Head(groups).files) - 1)
         + SumOverGroups(Tail(groups), withSize)

\* C10: in a successful result totalDuplicates is the sum of (files - 1)
\* and totalSavings the sum of size * (files - 1) over the groups.
TotalsAreSums ==
    (result # <<>> /\ result[1].success) =>
        /\ result[1].totalDuplicates = SumOverGroups(result[1].groups, FALSE)
        /\ result[1].totalSavings = SumOverGroups(result[1].groups, TRUE)

\* C10 witness: a successful result with two groups of different sizes.
TotalsAreSumsWitness ==
    /\ result # <<>>
    /\ result[1].success
    /\ Len(result[1].groups) = 2
    /\ result[1].groups[1].size # result[1].groups[2].size
    /\ result[1].totalSavings > result[1].totalDuplicates


\* C11: when a program calls findDuplicates twice for a report on a tree
\* that did not change, both calls resolve to the same success flag, the
\* same groups (hash, sorted file list and size of each) and the same
\* totalFiles, totalDuplicates and totalSavings, whatever the order in
\* which the directories were listed.
ScanIsIdempotent ==
    (prev # <<>> /\ result # <<>>) =>
        /\ files = files0
        /\ result[1].success = prev[1].success
        /\ Range(result[1].groups) = Range(prev[1].groups)
        /\ Len(result[1].groups) = Len(prev[1].groups)
        /\ result[1].totalFiles = prev[1].totalFiles
        /\ result[1].totalDuplicates = prev[1].totalDuplicates
        /\ result[1].totalSavings = prev[1].totalSavings

\* C11 witness: both calls returned two groups of different sizes, one of
\* them with a file of the sub-directory.
ScanIsIdempotentWitness ==
    /\ prev # <<>>
    /\ result # <<>>
    /\ result[1].success
    /\ Len(prev[1].groups) = 2
    /\ result[1].groups[1].size # result[1].groups[2].size
    /\ \E g \in 1..2 : dirname(result[1].groups[g].files[2]) = SubDir

\* name_k.ext in archiveDir
NumberedName(archiveDir, fileName, k) ==
    LET ext == extname(fileName)
    IN join(archiveDir, SubSeq(fileName, 1, Len(fileName) - Len(ext))
                        \o <<"_">> \o NumToString(k) \o ext)

\* C12: every move into archiveDir puts the file under its own basename if
\* nothing of that name is in archiveDir when the move is made, and otherwise
\* under name_k.ext for the smallest k >= 1 whose name_k.ext is not there.
ArchiveNameIsFirstFree ==
    [][ (Len(log') > Len(log) /\ log'[Len(log')].op = "rename") =>
          LET e == log'[Len(log')]
              archiveDir == hd.options.archiveDir
              fileName == basename(e.path)
              plain == join(archiveDir, fileName)
          IN /\ e.path \notin DOMAIN files'
             /\ e.to \in DOMAIN files'
             /\ files'[e.to] = files[e.path]
             /\ IF ~access(plain)
                THEN e.to = plain
                ELSE \E k \in 1..(Cardinality(DOMAIN files) + 1) :
                        /\ e.to = NumberedName(archiveDir, fileName, k)
                        /\ ~access(e.to)
                        /\ \A j \in 1..(k - 1) :
                              access(NumberedName(archiveDir, fileName, j))
      ]_vars

\* C12 witness: archiveDir held b_1.p, and two files named b.p were moved
\* into it: the first as b.p, the second as b_2.p.
ArchiveNameIsFirstFreeWitness ==
    /\ <<"z", "/", "b", "_", "1", ".", "p">> \in DOMAIN files0
    /\ \E i, j \in 1..Len(log) :
          /\ i < j
          /\ log[i].op = "rename"
          /\ log[i].to = <<"z", "/", "b", ".", "p">>
          /\ log[j].op = "rename"
          /\ log[j].to = <<"z", "/", "b", "_", "2", ".", "p">>

\* C13: on a source path that is missing or is not a directory the call
\* does not reject, and what it resolves to has success false, an error
\* message that is not empty, no group and totals of 0.
MissingSourceFails ==
    ~isDirectory(SrcDir) =>
        /\ pc # "rejected"
        /\ (pc \notin {"start", "fd_validate"}) => result # <<>>
        /\ result # <<>> =>
              /\ ~result[1].success
              /\ result[1].error # <<>>
              /\ result[1].groups = <<>>
              /\ result[1].totalFiles = 0
              /\ result[1].totalDuplicates = 0
              /\ result[1].totalSavings = 0

\* C13 witness: a program got the result of a call on a path that is a
\* regular file.
MissingSourceFailsWitness ==
    /\ isFile(SrcDir)
    /\ entry = "api"
    /\ pc = "api_returned"
    /\ result # <<>>
    /\ opts.deleteDuplicates
    /\ opts.skipConfirmation

\* C14 as claimed: when the source path is a directory, findDuplicates
\* resolves to a result with success true.
OnlyRootFailuresFail ==
    (result # <<>> /\ isDirectory(SrcDir)) => result[1].success

\* C15 as claimed: once handleDuplicates has been called and is no longer
\* running, it has visited every non-canonical file and returned its counts.
RemovalFailureIsLocal ==
    (hd.caller # "none" /\ pc \notin {"hd_begin", "hd_rewrite", "hd_remove", "hd_return"}) =>
        /\ hd.toRemove = <<>>
        /\ hret # <<>>

\* The files a scan can stat and hash: those of the source folder, and with
\* recursive those of the sub-directory if it can be listed.
Scannable ==
    {p \in DOMAIN files0 :
        /\ \/ dirname(p) = SrcDir
           \/ (opts.recursive /\ dirname(p) = SubDir /\ SubDir \notin faults.list)
        /\ p \notin faults.stat
        /\ p \notin faults.read}

\* The groups of the scannable files: one for each content that two or more
\* of them have.
ScannableGroups ==
    { [hash |-> getFileHash(c),
       files |-> SortStrings(SetToSeq({p \in Scannable : files0[p] = c})),
       size |-> Len(c)] :
      c \in {files0[p] : p \in {q \in Scannable :
                                   \E r \in Scannable : r # q /\ files0[r] = files0[q]}} }

\* C16: a scan that meets a file it cannot stat or hash, or a sub-directory
\* it cannot list, resolves to success true with exactly the groups of the
\* files it could scan, each group once.
ScanSkipsFailures ==
    (result # <<>> /\ faults # NoFaults) =>
        /\ result[1].success
        /\ \A expected \in {ScannableGroups} :
              /\ Range(result[1].groups) = expected
              /\ Len(result[1].groups) = Cardinality(expected)

\* C16 witness: the file that cannot be hashed has the content of a
\* returned group of two files and a third file of the tree.
ScanSkipsFailuresWitness ==
    /\ result # <<>>
    /\ faults.read # {}
    /\ \E p \in faults.read, g \in 1..Len(ReturnedGroups) :
          /\ p \in DOMAIN files0
          /\ getFileHash(files0[p]) = ReturnedGroups[g].hash
          /\ Len(ReturnedGroups[g].files) = 2

\* C17: with recursive = false, totalFiles is the number of files directly
\* in the source folder and every member of every group is one of them.
NonRecursiveIsShallow ==
    (result # <<>> /\ result[1].success /\ ~opts.recursive) =>
        /\ result[1].totalFiles =
              Cardinality({p \in DOMAIN files0 : dirname(p) = SrcDir})
        /\ \A g \in 1..Len(result[1].groups) :
              \A i \in 1..Len(result[1].groups[g].files) :
                 dirname(result[1].groups[g].files[i]) = SrcDir

\* C17 witness: a non-recursive scan returned a group while a file of the
\* sub-directory has the content of the group's files.
NonRecursiveIsShallowWitness ==
    /\ result # <<>>
    /\ result[1].success
    /\ ~opts.recursive
    /\ result[1].groups # <<>>
    /\ \E p \in DOMAIN files0 :
          /\ dirname(p) = SubDir
          /\ getFileHash(files0[p]) = result[1].groups[1].hash

\* C18: a successful result of findDuplicates with skipConfirmation and
\* deleteDuplicates: no file but the first of any group exists any more,
\* and removedCount is totalDuplicates, the number of those files.
DeleteRemovesAll ==
    (/\ result # <<>>
     /\ result[1].success
     /\ opts.skipConfirmation
     /\ opts.deleteDuplicates) =>
        /\ \A g \in 1..Len(result[1].groups) :
              \A i \in 2..Len(result[1].groups[g].files) :
                 ~access(result[1].groups[g].files[i])
        /\ result[1].removedCount = <<result[1].totalDuplicates>>
        /\ result[1].totalDuplicates = SumOverGroups(result[1].groups, FALSE)

\* C18 witness: such a result with two groups, and archiveDir given too.
DeleteRemovesAllWitness ==
    /\ result # <<>>
    /\ result[1].success
    /\ opts.skipConfirmation
    /\ opts.deleteDuplicates
    /\ opts.archiveDir # NoDir
    /\ Len(result[1].groups) = 2
    /\ result[1].removedCount = <<2>>


\* The reference files of the folder-level call: the allow-listed files of
\* its referenceDirs.
ConvReferenceFiles ==
    {f \in DOMAIN files :
        /\ \E i \in 1..Len(cv.options.referenceDirs) :
              dirname(f) = cv.options.referenceDirs[i]
        /\ IsReferenceFile(basename(f))}

\* C19 as claimed: once convertImagesInFolders has completed, no reference
\* file contains the file name of an image that was converted successfully.
AllReferencesUpdated ==
    (cv.op = "image" /\ cv.phase = "returned") =>
        \A i \in 1..Len(cv.tasks) :
           cv.tasks[i].success =>
              \A f \in ConvReferenceFiles :
                 ~Includes(files[f], basename(cv.tasks[i].inputPath))

\* C20: a folder-level call without skipConfirmation, until
\* handleOriginalsAfterReview is called, unlinks, renames and copies nothing,
\* and every file the folder held is still at its path.
OriginalsKeptWithoutConfirmation ==
    (/\ cv.op # "none"
     /\ ~cv.options.skipConfirmation
     /\ cv.phase \in {"start", "tasks", "returned"}) =>
        /\ \A p \in DOMAIN files0 : isFile(p)
        /\ \A k \in 1..Len(log) : log[k].op \notin {"unlink", "rename", "copyFile"}

\* C20 witness: optimizeSvgsInFolders returned two successful results, with
\* an outputDir, deleteOriginals and archiveDir, without skipConfirmation.
OriginalsKeptWithoutConfirmationWitness ==
    /\ cv.op = "svg"
    /\ cv.phase = "returned"
    /\ ~cv.options.skipConfirmation
    /\ cv.options.deleteOriginals
    /\ cv.options.archiveDir # NoDir
    /\ cv.options.outputDir # NoDir
    /\ Len(cv.tasks) = 2
    /\ \A i \in 1..2 : cv.tasks[i].success /\ cv.tasks[i].originalHandled = "kept"

\* C21: optimizeSvg and optimizePdf, and their handleOriginalsAfterReview,
\* never unlink, copy or rename an input whose output path is its own path:
\* the file stays a file at its path, and a successful result reports
\* originalHandled 'kept', whatever deleteOriginals and archiveDir are.
InPlaceOriginalKept ==
    (cv.op \in {"svg", "pdf"}) =>
        \A i \in 1..Len(cv.tasks) :
           LET t == cv.tasks[i]
           IN (t.inputPath = t.outputPath) =>
                 /\ isFile(t.inputPath)
                 /\ \A k \in 1..Len(log) :
                       log[k].op \in {"unlink", "rename", "copyFile"}
                          => log[k].path # t.inputPath
                 /\ (t.tpc = "done" /\ t.success) => t.originalHandled = "kept"

\* C21 witness: an optimizer ran in place on a file, in a call whose tasks
\* or whose review had deleteOriginals or archiveDir, and all is over.
InPlaceOriginalKeptWitness ==
    /\ cv.op \in {"svg", "pdf"}
    /\ cv.phase \in {"returned", "reviewed"}
    /\ (cv.phase = "returned") => cv.options.skipConfirmation
    /\ (cv.options.deleteOriginals \/ cv.options.archiveDir # NoDir)
    /\ \E i \in 1..Len(cv.tasks) :
          /\ cv.tasks[i].inputPath = cv.tasks[i].outputPath
          /\ cv.tasks[i].success
          /\ cv.tasks[i].originalHandled = "kept"
          /\ files[cv.tasks[i].inputPath] = Converted(cv.op, <<"i">>)

\* C22: whatever handleDuplicates has done so far, a file that is gone or
\* has another content is a file of a referenceDirs directory with an
\* extension of the allow-list or a non-canonical member of a group, and a
\* file that is new is an entry of archiveDir; so a file of referenceDirs
\* with another extension keeps its content.
OnlyAllowedFilesChange ==
    /\ \A p \in DOMAIN files0 :
          (~isFile(p) \/ files[p] # files0[p]) =>
             \/ /\ \E i \in 1..Len(hd.options.referenceDirs) :
                      dirname(p) = hd.options.referenceDirs[i]
                /\ toLowerCase(extname(p)) \in REFERENCE_FILE_EXTENSIONS
             \/ \E g \in 1..Len(hd.groups) :
                   \E i \in 2..Len(hd.groups[g].files) : hd.groups[g].files[i] = p
    /\ \A p \in (DOMAIN files) \ (DOMAIN files0) :
          hd.options.archiveDir # NoDir /\ dirname(p) = hd.options.archiveDir

\* C22 witness: handleDuplicates returned after it rewrote the reference
\* file of the allow-list and removed a file, and the other file of the
\* reference directory still holds the name of the file removed.
OnlyAllowedFilesChangeWitness ==
    /\ hret # <<>>
    /\ hret[1].removedCount = 1
    /\ {RefFile, OtherRefFile} \subseteq (DOMAIN files) \cap (DOMAIN files0)
    /\ files[RefFile] # files0[RefFile]
    /\ files[OtherRefFile] = files0[OtherRefFile]
    /\ \E k \in 1..Len(hd.replacements) :
          Includes(files[OtherRefFile], hd.replacements[k][1])

\* The files of a directory in a file system fs.
FilesIn(fs, dir) == {p \in DOMAIN fs : dirname(p) = dir}

\* The files a scan without the size pre-filter hashes: the enumerated files
\* that can be read.
HashedWithoutFilter ==
    {p \in Range(getAllFiles(SrcDir, opts.recursive, "asc")) : readFileOk(p)}

\* Grouping by hash alone: for each digest that two or more of these files
\* have, the digest and the files that have it, sorted.
GroupsByHashAlone(hashed) ==
    { <<h, SortStrings(SetToSeq({p \in hashed : getFileHash(files[p]) = h}))>> :
      h \in {getFileHash(files[p]) :
                p \in {q \in hashed :
                          \E r \in hashed :
                             r # q /\ getFileHash(files[r]) = getFileHash(files[q])}} }

\* C23: right after the scan of findDuplicates, when every file could be
\* stat'ed, its groups are those of grouping the hashes of all enumerated
\* files by hash alone and keeping the buckets of two or more files: the
\* same digests with the same files, each once.
SizeFilterKeepsGroups ==
    (/\ pc \in {"hd_begin", "fd_return"}
     /\ files = files0
     /\ faults.stat = {}) =>
        \A expected \in {GroupsByHashAlone(HashedWithoutFilter)} :
           /\ {<<fd.groups[g].hash, fd.groups[g].files>> : g \in 1..Len(fd.groups)}
                 = expected
           /\ Len(fd.groups) = Cardinality(expected)

\* C23 witness: the scan returned one group of two files while the tree
\* held a file of the same size with another content, hashed with them, and
\* a file alone in its size, which the pre-filter kept from being hashed.
SizeFilterKeepsGroupsWitness ==
    /\ pc = "fd_return"
    /\ files = files0
    /\ faults = NoFaults
    /\ Len(fd.groups) = 1
    /\ Len(fd.groups[1].files) = 2
    /\ \E p, q \in FilesIn(files, SrcDir) :
          /\ Len(files[p]) = fd.groups[1].size
          /\ getFileHash(files[p]) # fd.groups[1].hash
          /\ \A r \in (DOMAIN files) \ {q} : Len(files[r]) # Len(files[q])

\* content with every occurrence of the string old, left to right and
\* without overlap, replaced by the string new, character for character.
RECURSIVE LiteralReplaceAll(_, _, _)
LiteralReplaceAll(content, old, new) ==
    IF content = <<>> THEN <<>>
    ELSE IF old # <<>> /\ Len(old) <= Len(content) /\ SubSeq(content, 1, Len(old)) = old
         THEN new \o LiteralReplaceAll(SubSeq(content, Len(old) + 1, Len(content)), old, new)
    ELSE <<Head(content)>> \o LiteralReplaceAll(Tail(content), old, new)

\* The literal replacements of a map, in the order of its entries.
RECURSIVE LiteralReplacements(_, _)
LiteralReplacements(content, m) ==
    IF m = <<>> THEN content
    ELSE LiteralReplacements(LiteralReplaceAll(content, Head(m)[1], Head(m)[2]), Tail(m))

\* C24 as claimed: once handleDuplicates has returned from a run with one
\* reference directory, the reference file holds its content of before with
\* every occurrence of each duplicate's base name, taken as a literal
\* string, replaced by the base name of the file kept, as it is spelled.
RewritingIsLiteral ==
    (/\ hret # <<>>
     /\ Len(hd.options.referenceDirs) = 1
     /\ RefFile \in DOMAIN files0) =>
        files[RefFile] = LiteralReplacements(files0[RefFile], hd.replacements)

\* The reference files whose content is not the one of before the run.
ChangedReferenceFiles ==
    {p \in (DOMAIN files0) \cap (DOMAIN files) :
        /\ \E i \in 1..Len(hd.options.referenceDirs) :
              dirname(p) = hd.options.referenceDirs[i]
        /\ files[p] # files0[p]}

\* C25 as claimed: once handleDuplicates has returned, referencesUpdated is
\* the number of reference files whose content differs from the one of
\* before the call, and so is the number of writes, also when a directory
\* is given twice in referenceDirs.
ReferencesUpdatedCountsFiles ==
    (hret # <<>>) =>
        /\ hret[1].referencesUpdated = Cardinality(ChangedReferenceFiles)
        /\ Cardinality({k \in 1..Len(log) : log[k].op = "writeFile"})
              = Cardinality(ChangedReferenceFiles)

\* C26: in a handleDuplicates call with deleteDuplicates and an archiveDir,
\* nothing is renamed and no directory is made, archiveDir does not come to
\* exist and no file appears, and once the call has returned every file but
\* the first of each group is gone.
DeleteExcludesArchive ==
    (hd.options.deleteDuplicates /\ hd.options.archiveDir # NoDir) =>
        /\ \A k \in 1..Len(log) : log[k].op \notin {"rename", "mkdir"}
        /\ ~access(hd.options.archiveDir)
        /\ (DOMAIN files) \subseteq (DOMAIN files0)
        /\ (hret # <<>>) =>
              \A g \in 1..Len(hd.groups) :
                 \A i \in 2..Len(hd.groups[g].files) :
                    /\ ~isFile(hd.groups[g].files[i])
                    /\ \E k \in 1..Len(log) :
                          log[k] = Event("unlink", hd.groups[g].files[i], <<>>)

\* C26 witness: such a call returned after it deleted the duplicates of two
\* groups.
DeleteExcludesArchiveWitness ==
    /\ hret # <<>>
    /\ hd.options.deleteDuplicates
    /\ hd.options.archiveDir = ArchDir
    /\ Len(hd.groups) = 2
    /\ hret[1].removedCount = 2
    /\ ~isDirectory(ArchDir)

\* C27 as claimed: the replacement map handleDuplicates has built holds, for
\* every file but the first of every group, an entry from the file's base
\* name to the base name of the first file of that group.
ReplacementsNameOwnCanonical ==
    (pc \in {"hd_rewrite", "hd_remove"}) =>
        \A g \in 1..Len(hd.groups) :
           \A i \in 2..Len(hd.groups[g].files) :
              \E k \in 1..Len(hd.replacements) :
                 /\ hd.replacements[k][1] = basename(hd.groups[g].files[i])
                 /\ hd.replacements[k][2] = basename(hd.groups[g].files[1])

Renames == {k \in 1..Len(log) : log[k].op = "rename"}

\* C28 as claimed: in an archiving handleDuplicates call every file that
\* was in archiveDir before the call is still there with its content, the
\* moves of the call have pairwise distinct destinations, and once the call
\* has returned archiveDir holds removedCount files more than before.
ArchiveOnlyGains ==
    (~hd.options.deleteDuplicates /\ hd.options.archiveDir # NoDir) =>
        /\ \A p \in FilesIn(files0, hd.options.archiveDir) :
              isFile(p) /\ files[p] = files0[p]
        /\ \A j, k \in Renames : j # k => log[j].to # log[k].to
        /\ (hret # <<>>) =>
              Cardinality(FilesIn(files, hd.options.archiveDir))
                 = Cardinality(FilesIn(files0, hd.options.archiveDir))
                   + hret[1].removedCount

\* C28 amended: in an archiving handleDuplicates call every file that was
\* in archiveDir before the call and is not moved by the call is still there
\* with its content, every moved file is at its destination with the content
\* it had, the destinations are pairwise distinct, and once the call has
\* returned archiveDir holds, more than before, one file for each moved
\* file that was not in archiveDir already.
ArchiveNeverOverwrites ==
    (~hd.options.deleteDuplicates /\ hd.options.archiveDir # NoDir) =>
        LET archiveDir == hd.options.archiveDir
            moved == {log[k].path : k \in Renames}
        IN /\ \A p \in FilesIn(files0, archiveDir) \ moved :
                 isFile(p) /\ files[p] = files0[p]
           /\ \A k \in Renames :
                 /\ dirname(log[k].to) = archiveDir
                 /\ isFile(log[k].to)
                 /\ files[log[k].to] = files0[log[k].path]
           /\ \A j, k \in Renames : j # k => log[j].to # log[k].to
           /\ (hret # <<>>) =>
                 /\ Cardinality(Renames) = hret[1].removedCount
                 /\ Cardinality(FilesIn(files, archiveDir))
                       = Cardinality(FilesIn(files0, archiveDir))
                         + Cardinality(moved \ FilesIn(files0, archiveDir))

\* C28 witness: archiveDir held b.p, and the call has moved two files named
\* b.p into it and returned.
ArchiveNeverOverwritesWitness ==
    /\ hret # <<>>
    /\ hret[1].removedCount = 2
    /\ hd.options.archiveDir = ArchDir
    /\ FilesIn(files0, ArchDir) = {<<"z", "/", "b", ".", "p">>}
    /\ Cardinality(FilesIn(files, ArchDir)) = 3
    /\ \A k \in Renames : basename(log[k].path) = <<"b", ".", "p">>

\* The names a content lists: its parts between the ";".
RECURSIVE SplitNames(_, _)
SplitNames(content, part) ==
    IF content = <<>> THEN <<part>>
    ELSE IF Head(content) = ";" THEN <<part>> \o SplitNames(Tail(content), <<>>)
    ELSE SplitNames(Tail(content), Append(part, Head(content)))

\* The base names of the files of the scanned tree that the call left where
\* they were, and that no removed file shares.
SurvivingNames ==
    {basename(p) : p \in {q \in (DOMAIN files0) \cap (DOMAIN files) :
                             dirname(q) \in {SrcDir, SubDir} /\ files[q] = files0[q]}}
    \ {hd.replacements[k][1] : k \in 1..Len(hd.replacements)}

\* C29 as claimed: once handleDuplicates has returned, every name that a
\* reference file listed and that is the base name of a file still in place
\* (and of no removed file) is listed at the same place as before.
SurvivingNamesIntact ==
    (hret # <<>>) =>
        \A f \in (DOMAIN files0) \cap (DOMAIN files) :
           (/\ \E i \in 1..Len(hd.options.referenceDirs) :
                  dirname(f) = hd.options.referenceDirs[i]
            /\ toLowerCase(extname(f)) \in REFERENCE_FILE_EXTENSIONS) =>
              LET before == SplitNames(files0[f], <<>>)
                  after == SplitNames(files[f], <<>>)
              IN /\ Len(after) = Len(before)
                 /\ \A i \in 1..Len(before) :
                       before[i] \in SurvivingNames => after[i] = before[i]

\* C30 as claimed: once optimizeSvgsInFolders or optimizePdfsInFolders has
\* returned from a call with an outputDir, no two inputs that were processed
\* successfully have the same output path, and outputDir holds no fewer
\* files than originals were deleted.
OutputsAreDistinct ==
    (/\ cv.op \in {"svg", "pdf"}
     /\ cv.options.outputDir # NoDir
     /\ cv.phase = "returned") =>
        /\ \A i, j \in 1..Len(cv.tasks) :
              (i # j /\ cv.tasks[i].success /\ cv.tasks[j].success) =>
                 cv.tasks[i].outputPath # cv.tasks[j].outputPath
        /\ Cardinality({k \in 1..Len(log) : log[k].op = "unlink"})
              <= Cardinality(FilesIn(files, cv.options.outputDir))

====
